---- MODULE Spec2Model ----
(***************************************************************************)
(* Website SEO Analyzer: the three programs of the repository              *)
(*   app.py   hosted backend only (Streamlit form)                         *)
(*   app2.py  hosted or local (Ollama) backend (Streamlit form + sidebar)  *)
(*   test.py  the prototype script (module level code and summarize)       *)
(* modelled as one state machine.  A text is a sequence of one-character   *)
(* strings, a message is a sequence of tokens.                             *)
(***************************************************************************)
EXTENDS Integers, Sequences, FiniteSets, TLC

VARIABLES app, envKey, pc, phase, api_source, api_key, url, analyze_button,
          gate, response, extraction, website, prompt, backend, net,
          origin, received, ui

vars == <<app, envKey, pc, phase, api_source, api_key, url, analyze_button,
          gate, response, extraction, website, prompt, backend, net,
          origin, received, ui>>

(***************************************************************************)
(* Bounds of the model                                                     *)
(***************************************************************************)
\* nodes in the preorder listing of a <body>
MaxNodes == 3
\* nesting depth below <body>
MaxDepth == 3
\* children of a <title> element
MaxTitleNodes == 2

(***************************************************************************)
(* Texts                                                                   *)
(***************************************************************************)
Whitespace == {" ", "\n"}

Min(a, b) == IF a < b THEN a ELSE b

RECURSIVE LStrip(_)
\* str.lstrip(): drop the leading whitespace
LStrip(s) == IF s # <<>> /\ Head(s) \in Whitespace THEN LStrip(Tail(s)) ELSE s

RECURSIVE RStrip(_)
\* str.rstrip(): drop the trailing whitespace
RStrip(s) ==
    IF s # <<>> /\ s[Len(s)] \in Whitespace
    THEN RStrip(SubSeq(s, 1, Len(s) - 1))
    ELSE s

\* str.strip()
Strip(s) == RStrip(LStrip(s))

RECURSIVE Join(_, _)
\* separator.join(parts)
Join(parts, sep) ==
    IF parts = <<>> THEN <<>>
    ELSE IF Len(parts) = 1 THEN parts[1]
    ELSE parts[1] \o sep \o Join(Tail(parts), sep)

RECURSIVE Concat(_)
\* "".join(parts)
Concat(parts) == IF parts = <<>> THEN <<>> ELSE Head(parts) \o Concat(Tail(parts))

\* the characters of a text
Chars(s) == {s[i] : i \in 1..Len(s)}

(***************************************************************************)
(* Documents: what BeautifulSoup(response.content, 'html.parser') builds.  *)
(* A <body> is the preorder listing of its descendants, each with its      *)
(* depth below <body>; a text node carries its characters.                 *)
(***************************************************************************)
TextTag == "#text"
\* the list handed to soup.body([...])
Irrelevant == {"script", "style", "img", "input"}
\* elements without children (void elements)
VoidTags == {"img", "input"}
\* elements whose content the parser keeps as one text (CDATA content)
RawTextTags == {"script", "style"}
ElementTags == {"div"} \cup Irrelevant
TextShapes == {"padded", "blank"}

\* the letter of the text node at position i of the listing
Letter(i) == <<"a", "b", "c", "d", "e", "f">>[i]

\* the characters of the text node at position i
TextOf(shape, i) ==
    IF shape = "padded" THEN <<" ", Letter(i), " ">> ELSE <<" ", "\n">>

ElementNode(tag, d) == [tag |-> tag, depth |-> d, shape |-> "-"]
TextNode(shape, d) == [tag |-> TextTag, depth |-> d, shape |-> shape]

NodeSet ==
    {ElementNode(t, d) : t \in ElementTags, d \in 1..MaxDepth}
        \cup {TextNode(s, d) : s \in TextShapes, d \in 1..MaxDepth}

\* index of the parent of node i in the listing (0: the <body> itself)
ParentOf(nodes, i) ==
    IF nodes[i].depth = 1 THEN 0
    ELSE LET cands == {j \in 1..(i - 1) : nodes[j].depth = nodes[i].depth - 1}
         IN  IF cands = {} THEN 0
             ELSE CHOOSE j \in cands : \A k \in cands : k <= j

\* a listing the parser can build
WellFormed(nodes) ==
    \A i \in 1..Len(nodes) :
        /\ nodes[i].depth <= (IF i = 1 THEN 1 ELSE nodes[i - 1].depth + 1)
        /\ nodes[i].depth > 1 =>
              LET p == nodes[ParentOf(nodes, i)]
              IN  /\ p.tag # TextTag
                  /\ p.tag \notin VoidTags
                  /\ p.tag \in RawTextTags => nodes[i].tag = TextTag
        \* adjacent text nodes under one parent are one text node
        /\ (i > 1 /\ nodes[i].tag = TextTag) =>
              ~(nodes[i - 1].tag = TextTag /\ nodes[i - 1].depth = nodes[i].depth)

RECURSIVE SeqsUpTo(_, _)
SeqsUpTo(S, n) ==
    IF n = 0 THEN {<<>>}
    ELSE LET shorter == SeqsUpTo(S, n - 1)
         IN  shorter \cup {Append(s, x) : s \in {t \in shorter : Len(t) = n - 1}, x \in S}

Bodies == {nodes \in SeqsUpTo(NodeSet, MaxNodes) : WellFormed(nodes)}

\* children of <title>: a text node, or an element holding one text node
TitleNodes == {[kind |-> "text", s |-> <<" ", "T", " ">>],
               [kind |-> "elem", s |-> <<"E">>]}
TitleContents == SeqsUpTo(TitleNodes, MaxTitleNodes)

NoTitle == [present |-> FALSE, contents |-> <<>>]
NoBody == [present |-> FALSE, nodes |-> <<>>]
TitleElems == {NoTitle} \cup {[present |-> TRUE, contents |-> c] : c \in TitleContents}
BodyElems == {NoBody} \cup {[present |-> TRUE, nodes |-> n] : n \in Bodies}

Docs == [title : TitleElems, body : BodyElems]

(***************************************************************************)
(* Content extraction (Website.__init__ after the response arrived)        *)
(***************************************************************************)
\* a Python value that may be None
None == [isNone |-> TRUE, s |-> <<>>]
Str(s) == [isNone |-> FALSE, s |-> s]

\* bs4 Tag.string: the single child if it is a string, the .string of a
\* single child element, None for no child or several children
TagString(contents) ==
    IF Len(contents) # 1 THEN None ELSE Str(contents[1].s)

\* self.title = soup.title.string if soup.title else "No title found"
ExtractTitle(title) ==
    IF title.present THEN TagString(title.contents) ELSE Str(<<"No title found">>)

\* node i and its descendants: the part of the listing decompose() destroys
Subtree(nodes, i) ==
    {i} \cup {j \in (i + 1)..Len(nodes) :
                 \A k \in (i + 1)..j : nodes[k].depth > nodes[i].depth}

\* variant: only the children of <body> are searched (recursive=False)
FindAllChildren(nodes, names) ==
    LET hits == {i \in 1..Len(nodes) : nodes[i].tag \in names /\ nodes[i].depth = 1}
        RECURSIVE Ordered(_, _)
        Ordered(i, acc) ==
            IF i > Len(nodes) THEN acc
            ELSE Ordered(i + 1, IF i \in hits THEN Append(acc, i) ELSE acc)
    IN  Ordered(1, <<>>)

\* soup.body([...]): find_all over every descendant, in document order
FindAll(nodes, names) ==
    LET hits == {i \in 1..Len(nodes) : nodes[i].tag \in names}
        RECURSIVE Ordered(_, _)
        Ordered(i, acc) ==
            IF i > Len(nodes) THEN acc
            ELSE Ordered(i + 1, IF i \in hits THEN Append(acc, i) ELSE acc)
    IN  Ordered(1, <<>>)

RECURSIVE DecomposeEach(_, _, _)
\* for irrelevant in found: irrelevant.decompose()
DecomposeEach(nodes, found, alive) ==
    IF found = <<>> THEN alive
    ELSE DecomposeEach(nodes, Tail(found), alive \ Subtree(nodes, Head(found)))

RECURSIVE AllStrings(_, _, _)
\* bs4 _all_strings(strip=True): each text node stripped, empty ones skipped
AllStrings(nodes, alive, i) ==
    IF i > Len(nodes) THEN <<>>
    ELSE LET s == Strip(TextOf(nodes[i].shape, i))
             rest == AllStrings(nodes, alive, i + 1)
         IN  IF i \in alive /\ nodes[i].tag = TextTag /\ s # <<>>
             THEN <<s>> \o rest
             ELSE rest

\* soup.body.get_text(separator="\n", strip=True)
GetText(nodes, alive) == Join(AllStrings(nodes, alive, 1), <<"\n">>)

\* whether the code tests soup.body before using it
BodyGuarded(a) == a \in {"app", "app2"}

\* the part of Website.__init__ after the response: title, clean up, text
Extract(a, doc) ==
    LET title == ExtractTitle(doc.title)
        nodes == doc.body.nodes
    IN  IF doc.body.present
        THEN [raised |-> FALSE, kind |-> "", msg |-> <<>>, title |-> title,
              text |-> GetText(nodes,
                         DecomposeEach(nodes, FindAll(nodes, Irrelevant),
                                       1..Len(nodes)))]
        ELSE IF BodyGuarded(a)
        THEN [raised |-> FALSE, kind |-> "", msg |-> <<>>, title |-> title,
              text |-> <<>>]
        ELSE [raised |-> TRUE, kind |-> "TypeError",
              msg |-> <<"'NoneType' object is not callable">>,
              title |-> title, text |-> <<>>]

(***************************************************************************)
(* The environment: credentials, URLs, and what the network answers        *)
(***************************************************************************)
\* Python None as a credential
KeyNone == "<None>"
EnvKeys == {KeyNone, "", "sk-env"}
TypedKeys == {"", "sk-user"}
\* `not key`
Falsy(k) == k \in {KeyNone, ""}

EmptyUrl == <<>>
PageUrl == <<"http://", "x.test", "/", "p">>
Urls == {EmptyUrl, PageUrl}
\* the address test.py analyses
ScriptUrl == <<"https://", "fitnessfuelhub.com">>

TransportFailures == {"dns", "connect", "timeout"}
Statuses == {101, 200, 304, 404, 500}

\* documents the pages of the pipeline runs serve
ScriptDoc ==
    [title |-> [present |-> TRUE, contents |-> <<[kind |-> "text", s |-> <<" ", "T", " ">>]>>],
     body |-> [present |-> TRUE,
               nodes |-> <<ElementNode("div", 1), TextNode("padded", 2),
                           ElementNode("script", 1)>>]]
SampleDocs ==
    {ScriptDoc,
     [title |-> NoTitle, body |-> NoBody],
     [title |-> [present |-> TRUE, contents |-> <<>>],
      body |-> [present |-> TRUE, nodes |-> <<TextNode("padded", 1)>>]]}

NoDoc == [title |-> NoTitle, body |-> NoBody]
NoResponse == [kind |-> "none", status |-> 0, fail |-> "", doc |-> NoDoc]
TransportOutcome(f) == [kind |-> "transport", status |-> 0, fail |-> f, doc |-> NoDoc]
HttpOutcome(st, d) == [kind |-> "http", status |-> st, fail |-> "", doc |-> d]

PageOutcomes ==
    {TransportOutcome(f) : f \in TransportFailures}
        \cup {HttpOutcome(st, d) : st \in Statuses, d \in SampleDocs}

\* answers of the local server to GET /api/tags and to the probe POST
ProbeOutcomes == {TransportOutcome("connect"), HttpOutcome(200, NoDoc), HttpOutcome(500, NoDoc)}

\* answers of the local server to POST /api/generate: raw body, how it parses
NoBackend == [kind |-> "none", status |-> 0, body |-> <<>>, json |-> "", answer |-> <<>>,
              error |-> ""]
ReportText == <<"# Report", "\n", "Score: 80">>
OllamaOutcomes ==
    {[kind |-> "transport", status |-> 0, body |-> <<>>, json |-> "", answer |-> <<>>,
      error |-> "ConnectionError"],
     [kind |-> "http", status |-> 200, body |-> <<"{response: ">> \o ReportText \o <<"}">>,
      json |-> "ok", answer |-> ReportText, error |-> ""],
     [kind |-> "http", status |-> 200, body |-> <<"{error: ", "busy", "}">>,
      json |-> "nokey", answer |-> <<>>, error |-> ""],
     [kind |-> "http", status |-> 404, body |-> <<"{error: ", "model not found", "}">>,
      json |-> "ok", answer |-> <<>>, error |-> ""],
     [kind |-> "http", status |-> 500, body |-> <<"Internal", " ", "Server", " ", "Error">>,
      json |-> "invalid", answer |-> <<>>, error |-> ""]}

\* results of client.chat.completions.create(...)
OpenAIOutcomes ==
    {[kind |-> "api", status |-> 200, body |-> <<>>, json |-> "ok", answer |-> ReportText,
      error |-> ""],
     [kind |-> "api", status |-> 401, body |-> <<>>, json |-> "", answer |-> <<>>,
      error |-> "AuthenticationError"],
     [kind |-> "api", status |-> 0, body |-> <<>>, json |-> "", answer |-> <<>>,
      error |-> "APIConnectionError"]}

(***************************************************************************)
(* Exceptions                                                              *)
(***************************************************************************)
NoExc == [raised |-> FALSE, kind |-> "", msg |-> <<>>]
Exc(kind, msg) == [raised |-> TRUE, kind |-> kind, msg |-> msg]

\* what requests raises when no response arrives
TransportError(f) ==
    IF f = "dns" THEN Exc("ConnectionError", <<"Failed to resolve host">>)
    ELSE IF f = "connect" THEN Exc("ConnectionError", <<"Connection refused">>)
    ELSE Exc("Timeout", <<"Read timed out">>)

\* requests Response.raise_for_status(): HTTPError for 4xx and 5xx only
RaiseForStatus(st, u) ==
    IF 400 <= st /\ st < 500
    THEN Exc("HTTPError", <<ToString(st), " Client Error for url: ">> \o u)
    ELSE IF 500 <= st /\ st < 600
    THEN Exc("HTTPError", <<ToString(st), " Server Error for url: ">> \o u)
    ELSE NoExc

\* whether Website.__init__ calls response.raise_for_status()
ChecksStatus(a) == a \in {"app", "app2"}

\* variant: the failure of the GET is swallowed, nothing is raised
FetchExceptionSwallowed(a, out, u) == NoExc

\* the exception the fetching part of Website.__init__ raises, if any
FetchException(a, out, u) ==
    IF out.kind = "transport" THEN TransportError(out.fail)
    ELSE IF ChecksStatus(a) THEN RaiseForStatus(out.status, u)
    ELSE NoExc

\* variant: the except clause re-raises the exception as it is
WebsiteWrapBare(a, e) == e

\* except Exception as e: raise Exception(f"Error fetching website: {str(e)}")
WebsiteWrap(a, e) ==
    IF a \in {"app", "app2"}
    THEN Exc("Exception", <<"Error fetching website: ">> \o e.msg)
    ELSE e

\* the except clause of analyze_with_ollama / analyze_with_openai (app2.py)
BackendWrap(a, src, e) ==
    IF a = "app2" /\ src = "Ollama"
    THEN Exc("Exception", <<"Ollama analysis failed: ">> \o e.msg)
    ELSE IF a = "app2"
    THEN Exc("Exception", <<"OpenAI analysis failed: ">> \o e.msg)
    ELSE e

\* the except clause of analyze_website (app.py)
AnalyzeWrap(a, e) ==
    IF a = "app" THEN Exc("Exception", <<"Analysis failed: ">> \o e.msg) ELSE e

\* the exception as it arrives at main's except clause (or at top level)
Delivered(a, src, stage, e) ==
    IF stage \in {"fetch", "extract"} THEN AnalyzeWrap(a, WebsiteWrap(a, e))
    ELSE IF stage = "backend" THEN AnalyzeWrap(a, BackendWrap(a, src, e))
    ELSE e

(***************************************************************************)
(* Prompts                                                                 *)
(***************************************************************************)
\* str(v) inside an f-string
PyStr(v) == IF v.isNone THEN <<"None">> ELSE v.s

NoPrompt == [built |-> FALSE, merged |-> FALSE, system |-> <<>>, user |-> <<>>]

\* the system prompt of each program (one token)
SystemPrompt(a) ==
    IF a = "app" THEN <<"<system prompt of app.py>">>
    ELSE IF a = "app2" THEN <<"<system prompt of app2.py>">>
    ELSE <<"<system prompt of test.py>">>

\* the user content of the hosted backend, the merged prompt of the local one
BuildPromptFor(a, src, w) ==
    IF a = "app"
    THEN [built |-> TRUE, merged |-> FALSE, system |-> SystemPrompt(a),
          user |-> <<"You are analyzing a website titled: ">> \o PyStr(w.title)
                     \o <<"\n", "URL: ">> \o w.url
                     \o <<"\n", "Please analyze the following content and provide a comprehensive SEO analysis:", "\n">>
                     \o w.text]
    ELSE IF a = "app2" /\ src = "Ollama"
    THEN [built |-> TRUE, merged |-> TRUE, system |-> <<>>,
          user |-> SystemPrompt(a) \o <<"\n", "\n", "Analyzing website: ">>
                     \o PyStr(w.title) \o <<"\n", "URL: ">> \o w.url
                     \o <<"\n", "\n", "Content:", "\n">> \o w.text]
    ELSE IF a = "app2"
    THEN [built |-> TRUE, merged |-> FALSE, system |-> SystemPrompt(a),
          user |-> <<"Analyzing website: ">> \o PyStr(w.title)
                     \o <<"\n", "URL: ">> \o w.url
                     \o <<"\n", "\n", "Content:", "\n">> \o w.text]
    ELSE [built |-> TRUE, merged |-> FALSE, system |-> SystemPrompt(a),
          user |-> <<"You are looking at a website titled ">> \o PyStr(w.title)
                     \o <<"\n", " The contents of this website is as follows; ...", "\n", "\n">>
                     \o w.text]

(***************************************************************************)
(* The local server probe and the client of the hosted service             *)
(***************************************************************************)
Req(r, c, ph) == [req |-> r, carries |-> c, phase |-> ph]

\* check_ollama_availability(): GET /api/tags, then a POST with prompt "hi"
CheckOllama(tags, gen, ph) ==
    IF tags.kind = "transport" \/ tags.status # 200
    THEN [available |-> FALSE, reqs |-> <<Req("GET_TAGS", "-", ph)>>]
    ELSE [available |-> gen.kind = "http" /\ gen.status = 200,
          reqs |-> <<Req("GET_TAGS", "-", ph), Req("POST_GENERATE", "hi", ph)>>]

\* OpenAI(api_key=k): the key, else OPENAI_API_KEY, else OpenAIError
ClientInit(k, env) ==
    IF k = KeyNone /\ env = KeyNone
    THEN Exc("OpenAIError", <<"The api_key client option must be set">>)
    ELSE NoExc

\* the configuration checks of main (app2.py) before the try block
HostedKeyMissing(src, k) == src = "OpenAI" /\ Falsy(k)
\* variant: the availability of the local server is not consulted
LocalUnavailableIgnored(src, available) == FALSE
LocalUnavailable(src, available) == src = "Ollama" /\ ~available

(***************************************************************************)
(* What the user sees                                                      *)
(***************************************************************************)
NoUi == [error |-> None, info |-> <<>>, success |-> FALSE, report |-> None,
         download |-> None, file_name |-> <<>>, sidebar |-> <<>>,
         footer |-> FALSE]

\* response.text[:500]
FragmentLen == 500
Fragment(text) == SubSeq(text, 1, Min(Len(text), FragmentLen))

RECURSIVE Sanitize(_)
\* url.replace('https://', '').replace('http://', '').replace('/', '_')
Sanitize(u) ==
    IF u = <<>> THEN <<>>
    ELSE IF Head(u) \in {"https://", "http://"} THEN Sanitize(Tail(u))
    ELSE IF Head(u) = "/" THEN <<"_">> \o Sanitize(Tail(u))
    ELSE <<Head(u)>> \o Sanitize(Tail(u))

\* the except clause of main: st.error, st.info (and the footer of app.py)
ShowError(a, u, e) ==
    [u EXCEPT !.error = Str(<<"Error: ">> \o e.msg),
              !.info = IF a = "app"
                       THEN <<"Please make sure the URL is correct and the website is accessible.">>
                       ELSE <<"Please check the URL and try again.">>,
              !.footer = (a = "app")]

\* an uncaught exception ends the script with a traceback
ShowTraceback(u, e) == [u EXCEPT !.error = Str(<<e.kind, ": ">> \o e.msg)]

\* st.success, the expander with the report, the download button
ShowReport(a, u, link, result) ==
    [u EXCEPT !.success = TRUE, !.report = Str(result), !.download = Str(result),
              !.file_name = <<"seo_analysis_">> \o Sanitize(link) \o <<".md">>,
              !.footer = (a = "app")]

\* the sidebar lines analyze_with_ollama writes once a response arrived
OllamaLog(r) ==
    <<[kind |-> "write", text |-> <<"Status Code: ", ToString(r.status)>>],
      [kind |-> "write", text |-> <<"Response Headers: ">>],
      [kind |-> "write", text |-> <<"Response Text: ">> \o Fragment(r.body) \o <<"...">>]>>

(***************************************************************************)
(* State                                                                   *)
(***************************************************************************)
Apps == {"app", "app2", "test"}
NoSource == "<None>"
NoWebsite == [built |-> FALSE, url |-> <<>>, title |-> None, text |-> <<>>]
NoOrigin == [raised |-> FALSE, stage |-> "", kind |-> "", msg |-> <<>>]
NoGate == [sidebar |-> "none", main |-> "none"]

Init ==
    /\ app \in Apps
    /\ envKey \in EnvKeys
    /\ pc = IF app = "app2" THEN "idle" ELSE "load"
    /\ phase = IF app = "test" THEN "module" ELSE "analysis"
    /\ api_source = NoSource
    /\ api_key = KeyNone
    /\ url = EmptyUrl
    /\ analyze_button = FALSE
    /\ gate = NoGate
    /\ response = NoResponse
    /\ extraction = "none"
    /\ website = NoWebsite
    /\ prompt = NoPrompt
    /\ backend = NoBackend
    /\ net = <<>>
    /\ origin = NoOrigin
    /\ received = NoExc
    /\ ui = NoUi

\* an exception raised at `stage` travels to main's except clause, or ends
\* the script when nothing catches it
Fail(stage, e, shown) ==
    LET d == Delivered(app, api_source, stage, e)
    IN  /\ origin' = [raised |-> TRUE, stage |-> stage, kind |-> e.kind, msg |-> e.msg]
        /\ received' = d
        /\ IF app = "test" \/ stage = "load"
           THEN ui' = ShowTraceback(shown, d) /\ pc' = "crashed"
           ELSE ui' = ShowError(app, shown, d) /\ pc' = "done"

(***************************************************************************)
(* Steps                                                                   *)
(***************************************************************************)
\* module level of app.py and test.py: client = OpenAI()
Load ==
    /\ pc = "load"
    /\ LET e == ClientInit(KeyNone, envKey)
       IN  IF e.raised
           THEN /\ Fail("load", e, ui)
                /\ UNCHANGED <<app, envKey, phase, api_source, api_key, url,
                               analyze_button, gate, response, extraction,
                               website, prompt, backend, net>>
           ELSE /\ pc' = IF app = "test" THEN "hello" ELSE "input"
                /\ api_source' = "OpenAI"
                /\ api_key' = envKey
                /\ UNCHANGED <<app, envKey, phase, url, analyze_button, gate,
                               response, extraction, website, prompt, backend,
                               net, origin, received, ui>>

\* test.py: the first message to the hosted service, printed
Hello ==
    /\ pc = "hello"
    /\ \E out \in OpenAIOutcomes :
          /\ net' = Append(net, Req("CHAT_COMPLETION", "hello", phase))
          /\ IF out.error # ""
             THEN /\ Fail("hello", Exc(out.error, <<out.error>>), ui)
                  /\ url' = url
             ELSE /\ pc' = "fetch"
                  /\ url' = ScriptUrl
                  /\ UNCHANGED <<origin, received, ui>>
    /\ UNCHANGED <<app, envKey, phase, api_source, api_key, analyze_button,
                   gate, response, extraction, website, prompt, backend>>

\* app2.py: init_session_state + render_api_selection
RenderApiSelection ==
    /\ pc = "idle"
    /\ \E src \in {"OpenAI", "Ollama"}, use_env_key \in BOOLEAN,
          typed \in TypedKeys, tags \in ProbeOutcomes, gen \in ProbeOutcomes :
          LET probe == CheckOllama(tags, gen, phase)
          IN  /\ api_source' = src
              /\ IF src = "OpenAI"
                 THEN /\ api_key' = IF ~Falsy(envKey) /\ use_env_key
                                    THEN envKey ELSE typed
                      /\ UNCHANGED <<net, gate, ui>>
                 ELSE /\ api_key' = api_key
                      /\ net' = net \o probe.reqs
                      /\ gate' = [gate EXCEPT !.sidebar =
                                     IF probe.available THEN "up" ELSE "down"]
                      /\ ui' = [ui EXCEPT !.sidebar = Append(@,
                                   IF probe.available
                                   THEN [kind |-> "success", text |-> <<"Ollama server detected">>]
                                   ELSE [kind |-> "error", text |-> <<"Ollama server not detected.">>])]
    /\ pc' = "input"
    /\ UNCHANGED <<app, envKey, phase, url, analyze_button, response,
                   extraction, website, prompt, backend, origin, received>>

\* main: the URL field and the button; without both, only the footer
MainInput ==
    /\ pc = "input"
    /\ \E u \in Urls, b \in BOOLEAN :
          /\ url' = u
          /\ analyze_button' = b
          /\ IF b /\ u # EmptyUrl
             THEN /\ pc' = IF app = "app2" THEN "validate" ELSE "fetch"
                  /\ ui' = ui
             ELSE /\ pc' = "done"
                  /\ ui' = [ui EXCEPT !.footer = TRUE]
    /\ UNCHANGED <<app, envKey, phase, api_source, api_key, gate, response,
                   extraction, website, prompt, backend, net, origin, received>>

\* main (app2.py): validate the API configuration
ValidateConfig ==
    /\ pc = "validate"
    /\ IF HostedKeyMissing(api_source, api_key)
       THEN /\ ui' = [ui EXCEPT !.error = Str(<<"Please provide an OpenAI API key">>)]
            /\ pc' = "done"
            /\ UNCHANGED <<net, gate>>
       ELSE IF api_source = "Ollama"
       THEN \E tags \in ProbeOutcomes, gen \in ProbeOutcomes :
               LET probe == CheckOllama(tags, gen, phase)
               IN  /\ net' = net \o probe.reqs
                   /\ gate' = [gate EXCEPT !.main =
                                  IF probe.available THEN "up" ELSE "down"]
                   /\ IF LocalUnavailable(api_source, probe.available)
                      THEN /\ ui' = [ui EXCEPT !.error =
                                        Str(<<"Ollama server is not available">>)]
                           /\ pc' = "done"
                      ELSE /\ ui' = ui
                           /\ pc' = "fetch"
       ELSE /\ pc' = "fetch"
            /\ UNCHANGED <<net, gate, ui>>
    /\ UNCHANGED <<app, envKey, phase, api_source, api_key, url,
                   analyze_button, response, extraction, website, prompt,
                   backend, origin, received>>

\* variant: the GET is sent a second time
PageGetRetried(ph) == <<Req("GET_PAGE", "-", ph), Req("GET_PAGE", "-", ph)>>

\* requests.get(url, headers=..., timeout=10): one GET, never repeated
PageGet(ph) == <<Req("GET_PAGE", "-", ph)>>

\* Website.__init__: requests.get (and raise_for_status)
Fetch ==
    /\ pc = "fetch"
    /\ \E out \in PageOutcomes :
          LET e == FetchException(app, out, url)
          IN  /\ net' = net \o PageGet(phase)
              /\ response' = out
              /\ IF e.raised
                 THEN Fail("fetch", e, ui)
                 ELSE pc' = "extract" /\ UNCHANGED <<origin, received, ui>>
    /\ UNCHANGED <<app, envKey, phase, api_source, api_key, url,
                   analyze_button, gate, extraction, website, prompt, backend>>

\* Website.__init__: parse, title, clean up, text
ExtractStep ==
    /\ pc = "extract"
    /\ LET x == Extract(app, response.doc)
       IN  IF x.raised
           THEN /\ extraction' = "raised"
                /\ website' = website
                /\ Fail("extract", Exc(x.kind, x.msg), ui)
           ELSE /\ extraction' = "ok"
                /\ website' = [built |-> TRUE, url |-> url, title |-> x.title,
                               text |-> x.text]
                /\ pc' = "prompt"
                /\ UNCHANGED <<origin, received, ui>>
    /\ UNCHANGED <<app, envKey, phase, api_source, api_key, url,
                   analyze_button, gate, response, prompt, backend, net>>

\* the prompt of the selected backend (app2.py with the hosted backend
\* creates its client first)
BuildPrompt ==
    /\ pc = "prompt"
    /\ LET e == IF app = "app2" /\ api_source = "OpenAI"
                THEN ClientInit(api_key, envKey) ELSE NoExc
       IN  IF e.raised
           THEN Fail("client", e, ui) /\ UNCHANGED prompt
           ELSE /\ prompt' = BuildPromptFor(app, api_source, website)
                /\ pc' = IF app = "test" /\ phase = "module"
                         THEN "summarize" ELSE "complete"
                /\ UNCHANGED <<origin, received, ui>>
    /\ UNCHANGED <<app, envKey, phase, api_source, api_key, url,
                   analyze_button, gate, response, extraction, website,
                   backend, net>>

\* test.py: summarize(myWebsite.url) starts; from here on website, response
\* and prompt are the locals of summarize and messages_for
Summarize ==
    /\ pc = "summarize"
    /\ phase' = "analysis"
    /\ url' = website.url
    /\ response' = NoResponse
    /\ extraction' = "none"
    /\ website' = NoWebsite
    /\ prompt' = NoPrompt
    /\ pc' = "fetch"
    /\ UNCHANGED <<app, envKey, api_source, api_key, analyze_button, gate,
                   backend, net, origin, received, ui>>

\* the exception of the local backend call, if any
OllamaException(out, u) ==
    IF out.kind = "transport" THEN Exc("ConnectionError", <<"Connection refused">>)
    ELSE IF RaiseForStatus(out.status, u).raised THEN RaiseForStatus(out.status, u)
    ELSE IF out.json = "invalid" THEN Exc("JSONDecodeError", <<"Expecting value">>)
    ELSE IF out.json = "nokey" THEN Exc("KeyError", <<"'response'">>)
    ELSE NoExc

OllamaApi == <<"http://localhost:11434/api/generate">>

\* analyze_with_ollama from the POST on
CompleteOllama ==
    \E out \in OllamaOutcomes :
        LET e == OllamaException(out, OllamaApi)
            logged == IF out.kind = "http"
                      THEN [ui EXCEPT !.sidebar = @ \o OllamaLog(out)] ELSE ui
        IN  /\ net' = Append(net, Req("POST_GENERATE", "page", phase))
            /\ backend' = out
            /\ IF e.raised
               THEN Fail("backend", e,
                         [logged EXCEPT !.sidebar = Append(@,
                             [kind |-> "error",
                              text |-> <<"Full error details: ">> \o e.msg])])
               ELSE pc' = "display" /\ ui' = logged /\ UNCHANGED <<origin, received>>

\* client.chat.completions.create(...) and the content of its first choice
CompleteOpenAI ==
    \E out \in OpenAIOutcomes :
        /\ net' = Append(net, Req("CHAT_COMPLETION", "page", phase))
        /\ backend' = out
        /\ IF out.error # ""
           THEN Fail("backend", Exc(out.error, <<out.error>>), ui)
           ELSE pc' = "display" /\ UNCHANGED <<origin, received, ui>>

\* the completion call of the selected backend
Complete ==
    /\ pc = "complete"
    /\ IF app = "app2" /\ api_source = "Ollama" THEN CompleteOllama ELSE CompleteOpenAI
    /\ UNCHANGED <<app, envKey, phase, api_source, api_key, url,
                   analyze_button, gate, response, extraction, website, prompt>>

\* success message, report and download button (test.py prints the summary)
Display ==
    /\ pc = "display"
    /\ ui' = IF app = "test" THEN [ui EXCEPT !.report = Str(backend.answer)]
             ELSE ShowReport(app, ui, url, backend.answer)
    /\ pc' = "done"
    /\ UNCHANGED <<app, envKey, phase, api_source, api_key, url,
                   analyze_button, gate, response, extraction, website, prompt,
                   backend, net, origin, received>>

\* Streamlit runs the script again; only the session state survives
Rerun ==
    /\ pc = "done"
    /\ app # "test"
    /\ pc' = IF app = "app2" THEN "idle" ELSE "load"
    /\ url' = EmptyUrl
    /\ analyze_button' = FALSE
    /\ gate' = NoGate
    /\ response' = NoResponse
    /\ extraction' = "none"
    /\ website' = NoWebsite
    /\ prompt' = NoPrompt
    /\ backend' = NoBackend
    /\ net' = <<>>
    /\ origin' = NoOrigin
    /\ received' = NoExc
    /\ ui' = NoUi
    /\ UNCHANGED <<app, envKey, phase, api_source, api_key>>

Next ==
    \/ Load
    \/ Hello
    \/ RenderApiSelection
    \/ MainInput
    \/ ValidateConfig
    \/ Fetch
    \/ ExtractStep
    \/ BuildPrompt
    \/ Summarize
    \/ Complete
    \/ Display
    \/ Rerun

Spec == Init /\ [][Next]_vars

(***************************************************************************)
(* The extractor alone, over every document of the bounds                  *)
(***************************************************************************)
ExtractInit ==
    /\ app \in Apps
    /\ envKey = "sk-env"
    /\ pc = "extract"
    /\ phase = IF app = "test" THEN "module" ELSE "analysis"
    /\ api_source = "OpenAI"
    /\ api_key = "sk-env"
    /\ url = IF app = "test" THEN ScriptUrl ELSE PageUrl
    /\ analyze_button = (app # "test")
    /\ gate = NoGate
    /\ \E d \in Docs : response = HttpOutcome(200, d)
    /\ extraction = "none"
    /\ website = NoWebsite
    /\ prompt = NoPrompt
    /\ backend = NoBackend
    /\ net = IF app = "test"
             THEN <<Req("CHAT_COMPLETION", "hello", "module"), Req("GET_PAGE", "-", "module")>>
             ELSE <<Req("GET_PAGE", "-", "analysis")>>
    /\ origin = NoOrigin
    /\ received = NoExc
    /\ ui = NoUi

ExtractSpec == ExtractInit /\ [][ExtractStep]_vars

(***************************************************************************)
(* Properties                                                              *)
(***************************************************************************)
\* positions of the requests of the analysis in the log
PageGets == {i \in DOMAIN net : net[i].req = "GET_PAGE" /\ net[i].phase = "analysis"}
PagePromptRequests == {i \in DOMAIN net : net[i].carries = "page"}
GenerationRequests ==
    {i \in DOMAIN net : /\ net[i].req \in {"POST_GENERATE", "CHAT_COMPLETION"}
                        /\ net[i].phase = "analysis"}
ProbeGenerations == {i \in DOMAIN net : net[i].carries = "hi"}

\* the user asked for an analysis in this run
Started ==
    IF app = "test" THEN phase = "analysis"
    ELSE analyze_button /\ url # EmptyUrl

\* the page fetch of the analysis ended without a usable response
FetchFailed ==
    \/ origin.raised /\ origin.stage = "fetch" /\ phase = "analysis"
    \/ response.kind = "transport" /\ phase = "analysis"

C2_NoRequestWithoutCredential ==
    (Started /\ api_source = "OpenAI" /\ Falsy(api_key)) =>
        /\ \A i \in DOMAIN net : net[i].phase # "analysis"
        /\ pc = "done" => ~ui.error.isNone

\* C3: when the local backend is selected and the availability probe of
\* main reports unavailable, the run ends with an error: no page GET and
\* no generation request carrying the page prompt is issued, no report.
C3_NoCompletionWhenLocalUnavailable ==
    (api_source = "Ollama" /\ gate.main = "down") =>
        /\ PageGets = {}
        /\ PagePromptRequests = {}
        /\ pc = "done"
        /\ ~ui.error.isNone
        /\ ui.report.isNone
        /\ response.kind = "none"

\* C3 witness: the probe of main answered (its trivial generation request
\* was sent and refused) and the run is over
C3_Witness ==
    /\ api_source = "Ollama"
    /\ gate.main = "down"
    /\ Started
    /\ net[Len(net)].carries = "hi"
    /\ pc = "done"

\* t is the end of s
IsSuffix(t, s) ==
    Len(t) <= Len(s) /\ SubSeq(s, Len(s) - Len(t) + 1, Len(s)) = t

\* a sidebar line shows characters of the backend's raw response body
ShowsResponseFragment ==
    \E i \in DOMAIN ui.sidebar :
        /\ ui.sidebar[i].kind = "write"
        /\ Chars(backend.body) \cap Chars(ui.sidebar[i].text) # {}

\* C4 (as claimed): analysis is all-or-nothing: when an error is shown no
\* report, no download and no fragment of the backend response is shown;
\* a report and its download appear only when every step succeeded.
C4_AllOrNothing ==
    /\ ~ui.error.isNone =>
          /\ ui.report.isNone
          /\ ui.download.isNone
          /\ ~ui.success
          /\ ~ShowsResponseFragment
    /\ ~ui.report.isNone =>
          /\ ui.error.isNone
          /\ extraction = "ok"
          /\ ~origin.raised

\* C5 (as claimed): the error the Presentation Layer receives has the kind
\* and the message of the error raised at the origin.
C5_ReachesUnmodified ==
    (received.raised /\ pc = "done") =>
        /\ received.kind = origin.kind
        /\ received.msg = origin.msg

\* C5 (amended): in app.py and app2.py an error arises only in the page
\* retrieval or in the backend call, and the Presentation Layer receives a
\* generic Exception whose message is the cause's message behind the
\* prefix of every except clause it crossed.
C5_RewrappedWithPrefix ==
    (received.raised /\ pc = "done") =>
        /\ app \in {"app", "app2"}
        /\ origin.stage \in {"fetch", "backend"}
        /\ received.kind = "Exception"
        /\ (app = "app2" /\ origin.stage = "fetch") =>
              received.msg = <<"Error fetching website: ">> \o origin.msg
        /\ (app = "app2" /\ origin.stage = "backend" /\ api_source = "Ollama") =>
              received.msg = <<"Ollama analysis failed: ">> \o origin.msg
        /\ (app = "app2" /\ origin.stage = "backend" /\ api_source = "OpenAI") =>
              received.msg = <<"OpenAI analysis failed: ">> \o origin.msg
        /\ (app = "app" /\ origin.stage = "fetch") =>
              received.msg = <<"Analysis failed: ", "Error fetching website: ">> \o origin.msg
        /\ (app = "app" /\ origin.stage = "backend") =>
              received.msg = <<"Analysis failed: ">> \o origin.msg
        /\ ui.error.s = <<"Error: ">> \o received.msg

\* C5 witness: a failed page GET of app.py arrived at main, wrapped twice
C5_Witness ==
    /\ app = "app"
    /\ pc = "done"
    /\ received.raised
    /\ origin.stage = "fetch"
    /\ origin.kind = "HTTPError"

\* C6 (as claimed): every non-2xx status and every transport failure of
\* the page GET ends in a fetch error that carries the cause message, and
\* only a 2xx page reaches the extractor.
C6_NonSuccessIsFetchError ==
    /\ (\/ response.kind = "transport"
        \/ response.kind = "http" /\ ~(200 <= response.status /\ response.status < 300)) =>
          /\ origin.raised
          /\ origin.stage = "fetch"
          /\ received.raised
          /\ IsSuffix(origin.msg, received.msg)
    /\ extraction # "none" =>
          (200 <= response.status /\ response.status < 300)

\* the text content of a <title>
TitleText(contents) == Concat([i \in DOMAIN contents |-> contents[i].s])

\* C7 (as claimed): the title of a fetched page is a string: the trimmed
\* text content of <title> when the element is present, else the
\* placeholder "No title found".
C7_TitleIsTrimmedText ==
    website.built =>
        /\ ~website.title.isNone
        /\ response.doc.title.present =>
              website.title.s = Strip(TitleText(response.doc.title.contents))
        /\ ~response.doc.title.present =>
              website.title.s = <<"No title found">>

\* C9 (as claimed): extraction never raises; a fetched document always
\* yields a page, with the empty body text when there is no <body>.
C9_ExtractionNeverFails ==
    /\ extraction # "raised"
    /\ ~(origin.raised /\ origin.stage = "extract")
    /\ extraction = "ok" => website.built
    /\ (extraction = "ok" /\ ~response.doc.body.present) => website.text = <<>>

RemovedKinds == {"script", "style", "img", "input"}

RECURSIVE InsideRemoved(_, _)
\* node i is, or lies at any depth inside, an element of a removed kind
InsideRemoved(nodes, i) ==
    /\ i # 0
    /\ \/ nodes[i].tag \in RemovedKinds
       \/ InsideRemoved(nodes, ParentOf(nodes, i))

RECURSIVE RemainingTexts(_, _, _)
\* the text nodes outside every removed element, in document order, from
\* position i on: as they stand in the document, or each one stripped
\* with the empty ones left out
RemainingTexts(nodes, i, eachStripped) ==
    IF i > Len(nodes) THEN <<>>
    ELSE LET raw == TextOf(nodes[i].shape, i)
             rest == RemainingTexts(nodes, i + 1, eachStripped)
         IN  IF nodes[i].tag # TextTag \/ InsideRemoved(nodes, i) THEN rest
             ELSE IF ~eachStripped THEN <<raw>> \o rest
             ELSE IF Strip(raw) = <<>> THEN rest
             ELSE <<Strip(raw)>> \o rest

\* no character of a text node inside a removed element is in the body text
NoRemovedText(nodes, text) ==
    \A i \in DOMAIN nodes :
        (nodes[i].tag = TextTag /\ InsideRemoved(nodes, i)) =>
            Letter(i) \notin Chars(text)

\* C8 (as claimed): the body text holds no text of a script, style, img or
\* input element at any depth and is exactly the remaining text nodes, in
\* document order, joined by newlines, the result stripped.
C8_JoinedThenStripped ==
    (extraction = "ok" /\ response.doc.body.present) =>
        /\ NoRemovedText(response.doc.body.nodes, website.text)
        /\ website.text =
              Strip(Join(RemainingTexts(response.doc.body.nodes, 1, FALSE), <<"\n">>))

\* C8 (amended): the body text holds no text of a script, style, img or
\* input element at any depth and is exactly the remaining text nodes, in
\* document order, each stripped on its own, the empty ones left out,
\* joined by single newlines.
C8_StrippedThenJoined ==
    (extraction = "ok" /\ response.doc.body.present) =>
        /\ NoRemovedText(response.doc.body.nodes, website.text)
        /\ website.text =
              Join(RemainingTexts(response.doc.body.nodes, 1, TRUE), <<"\n">>)

\* C8 witness: a document whose text sits in a removed element nested in
\* another element was extracted
C8_Witness ==
    /\ extraction = "ok"
    /\ response.doc.body.present
    /\ \E i \in DOMAIN response.doc.body.nodes :
          LET n == response.doc.body.nodes
          IN  /\ n[i].tag = TextTag
              /\ n[i].shape = "padded"
              /\ n[i].depth = 3
              /\ InsideRemoved(n, i)

\* t occurs in s as one contiguous piece
Contains(s, t) ==
    \E i \in 0..(Len(s) - Len(t)) : SubSeq(s, i + 1, i + Len(t)) = t

\* the local backend answered the page prompt with a non-success status
LocalStatusFailure ==
    /\ app = "app2"
    /\ api_source = "Ollama"
    /\ backend.kind = "http"
    /\ ~(200 <= backend.status /\ backend.status < 300)

\* C11 (as claimed): when the local backend call fails with a non-success
\* HTTP status, the error delivered to the Presentation Layer has a message
\* that includes the raw response body of the server.
C11_MessageCarriesBody ==
    LocalStatusFailure =>
        /\ received.raised
        /\ origin.stage = "backend"
        /\ backend.body # <<>>
        /\ Contains(received.msg, backend.body)

\* C12 (as claimed): the user content (or merged prompt) sent to the
\* completion backend contains the page title, the page URL and the whole
\* body text, verbatim and untruncated, for the hosted and the local
\* backend.
C12_PromptEmbedsPage ==
    (prompt.built /\ website.built /\ PagePromptRequests # {}) =>
        /\ ~website.title.isNone => Contains(prompt.user, website.title.s)
        /\ website.url # <<>>
        /\ Contains(prompt.user, website.url)
        /\ Contains(prompt.user, website.text)
====
